---- MODULE Spec2Model ----
(***************************************************************************)
(* Model of the chat application's middlewares: the request throttle, the  *)
(* time guard and the role gate (Django-Middleware-0x03/chats/             *)
(* middleware.py), of the threaded message views with their cache          *)
(* (Django-signals_orm-0x04/messaging/views.py), and of                    *)
(* Conversation.updated_at (messaging_app/chats/models.py).                *)
(***************************************************************************)
EXTENDS Integers, Sequences, FiniteSets, TLC

(***************************************************************************)
(* Bounds of the model.                                                    *)
(***************************************************************************)
\* how many times the clock is advanced in one run
MaxTicks == 2
\* how many POST requests reach the throttle in one run
MaxRequests == 7
\* how many requests are handled concurrently in the threaded server
NThreads == 2
\* how many POST requests the threaded server takes in one run
MaxConcRequests == 2
\* how many rows the Message table holds at most
MaxMsgs == 4
\* how many view calls one run of the message views makes
MaxOps == 4
\* how many records insert_data is given at most
MaxRecords == 4
\* the largest batch size insert_data is called with
MaxBatchSize == 3

(***************************************************************************)
(* Program constants of OffensiveLanguageMiddleware.__init__.              *)
(***************************************************************************)
limit == 5
window == 60

\* request.META.get('REMOTE_ADDR') of a request that carries no address
NoAddr == "None"
\* the client identities: one address, and the absent address
Identities == {"10.0.0.1", NoAddr}
Methods == {"GET", "POST"}
\* the clock moves by one time unit, or to one unit before a whole window
Steps == {1, window - 1}
Threads == 1..NThreads

\* views.py lines 158, 173 and 200: the cache timeout
cache_ttl == 60
Users == {"u1", "u2"}
Conversations == {"c1", "c2"}
\* Conversation.participants
participants == [c \in Conversations |-> IF c = "c1" THEN {"u1", "u2"} ELSE {"u1"}]
\* request.POST['content']
Contents == {"hi", "ed"}
\* parent_message of a message that is no reply
NoMsg == 0
\* the depth at which the interpreter stops a recursion; above every
\* thread the table can hold
RecursionLimit == MaxMsgs + 2

VARIABLES
    now,             \* the clock, datetime.now().timestamp()
    ticks,           \* how often the clock was advanced (bounded by MaxTicks)
    request_counts,  \* self.request_counts: identity -> list of timestamps
    resp,            \* the last response of the throttle middleware
    log,             \* history: identity -> the POST checks made, [t, ok]
    nreq,            \* how many POST checks were started (bounded)
    pc,              \* threaded server: the line each request thread is at
    loc,             \* threaded server: each thread's locals (ip, now, filtered)
    msgs,            \* the Message table: message id -> row, in insertion order
    corrupted,       \* whether a parent link was overwritten behind the views
    updated_at,      \* Conversation.updated_at of every conversation
    cache,           \* django.core.cache.cache: key -> entry
    out,             \* the outcome of the last view call
    dirty,           \* history: <<user, resource>> invalidated and not read since
    clean,           \* history: <<user, conversation>> marked read, no message since
    nops,            \* how many view calls were made (bounded by MaxOps)
    seed             \* seed.py: the run of insert_data, its locals and the table

throttleVars == <<request_counts, resp, log, nreq, pc, loc>>
chatVars == <<msgs, corrupted, updated_at, cache, out, dirty, clean, nops>>

vars == <<now, ticks, seed, request_counts, resp, log, nreq, pc, loc,
          msgs, corrupted, updated_at, cache, out, dirty, clean, nops>>

(***************************************************************************)
(* OffensiveLanguageMiddleware: the pure parts of __call__.                *)
(***************************************************************************)
\* a purge that resets the record at every clock-minute boundary
PurgeFixedBucket(list, t) ==
    SelectSeq(list, LAMBDA s : s \div window = t \div window)

\* line 68: [t for t in self.request_counts[ip] if now - t < self.window]
Purge(list, t) ==
    SelectSeq(list, LAMBDA s : t - s < window)

\* a limit test that is off by one
OverLimitOffByOne(list) ==
    Len(list) > limit

\* line 71: len(self.request_counts[ip]) >= self.limit
OverLimit(list) ==
    Len(list) >= limit

(***************************************************************************)
(* The Message table and the queries of views.py on it.                    *)
(***************************************************************************)
Ids(ms) == DOMAIN ms

\* a create that stores the parent link one identifier too high
NewMessageParentOffByOne(sender, receiver, conv, parent, content, t) ==
    [sender |-> sender, receiver |-> receiver, conversation |-> conv,
     parent_message |-> IF parent = 0 THEN 0 ELSE parent + 1, timestamp |-> t,
     is_read |-> FALSE, content |-> content]

\* Message.objects.create: the row of a new message
NewMessage(sender, receiver, conv, parent, content, t) ==
    [sender |-> sender, receiver |-> receiver, conversation |-> conv,
     parent_message |-> parent, timestamp |-> t, is_read |-> FALSE,
     content |-> content]

\* the rows of set S as a list, ascending by timestamp; rows of equal
\* timestamp come in the order the database returns them, rank[id]
RECURSIVE OrderByTimestamp(_, _, _)
OrderByTimestamp(ms, S, rank) ==
    IF S = {} THEN <<>>
    ELSE LET first == CHOOSE x \in S : \A y \in S :
                          \/ ms[x].timestamp < ms[y].timestamp
                          \/ /\ ms[x].timestamp = ms[y].timestamp
                             /\ rank[x] <= rank[y]
         IN  <<first>> \o OrderByTimestamp(ms, S \ {first}, rank)

\* the rows of set S as a list, descending by timestamp
RECURSIVE OrderByTimestampDesc(_, _, _)
OrderByTimestampDesc(ms, S, rank) ==
    IF S = {} THEN <<>>
    ELSE LET first == CHOOSE x \in S : \A y \in S :
                          \/ ms[x].timestamp > ms[y].timestamp
                          \/ /\ ms[x].timestamp = ms[y].timestamp
                             /\ rank[x] <= rank[y]
         IN  <<first>> \o OrderByTimestampDesc(ms, S \ {first}, rank)

\* the orders in which the database may return rows of equal timestamp: the
\* order of insertion, or its reverse
Ranks(n) == {[i \in 1..n |-> i], [i \in 1..n |-> n + 1 - i]}

\* replies fetched newest first
RepliesNewestFirst(ms, id, rank) ==
    OrderByTimestampDesc(ms, {i \in Ids(ms) : ms[i].parent_message = id}, rank)

\* only the first reply is fetched
RepliesFirstOnly(ms, id, rank) ==
    LET all == OrderByTimestamp(ms, {i \in Ids(ms) : ms[i].parent_message = id}, rank)
    IN  IF all = <<>> THEN <<>> ELSE <<Head(all)>>

\* line 121: Message.objects.filter(parent_message=message).order_by('timestamp')
Replies(ms, id, rank) ==
    OrderByTimestamp(ms, {i \in Ids(ms) : ms[i].parent_message = id}, rank)

\* lines 117-124: recurse(message, depth), the thread appended in the call and
\* below it; err when the interpreter's recursion limit stops the recursion
RECURSIVE recurse(_, _, _, _)
RECURSIVE recurseEach(_, _, _, _)
recurse(ms, rank, id, depth) ==
    IF depth > RecursionLimit
    THEN [err |-> TRUE, thread |-> <<>>]
    ELSE LET below == recurseEach(ms, rank, Replies(ms, id, rank), depth + 1)
         IN  [err |-> below.err, thread |-> <<<<id, depth>>>> \o below.thread]

\* lines 123-124: for reply in replies: recurse(reply, depth + 1)
recurseEach(ms, rank, replies, depth) ==
    IF replies = <<>>
    THEN [err |-> FALSE, thread |-> <<>>]
    ELSE LET head == recurse(ms, rank, Head(replies), depth)
         IN  IF head.err
             THEN head
             ELSE LET rest == recurseEach(ms, rank, Tail(replies), depth)
                  IN  [err |-> rest.err, thread |-> head.thread \o rest.thread]

\* lines 109-127
get_threaded_replies(ms, rank, root) ==
    recurse(ms, rank, root, 0)

\* msg.replies: the reverse side of Message.parent_message, the rows whose
\* parent is the message
replies(ms, id) ==
    {i \in Ids(ms) : ms[i].parent_message = id}

\* line 87: msg.replies.select_related('sender').all().order_by('timestamp')
RepliesManager(ms, id, rank) ==
    OrderByTimestamp(ms, replies(ms, id), rank)

\* lines 85-89: recurse(msg, depth) of get_message_thread
RECURSIVE recurseThread(_, _, _, _)
RECURSIVE recurseThreadEach(_, _, _, _)
recurseThread(ms, rank, id, depth) ==
    IF depth > RecursionLimit
    THEN [err |-> TRUE, thread |-> <<>>]
    ELSE LET below == recurseThreadEach(ms, rank, RepliesManager(ms, id, rank),
                                        depth + 1)
         IN  [err |-> below.err, thread |-> <<<<id, depth>>>> \o below.thread]

\* lines 88-89: for reply in replies: recurse(reply, depth + 1)
recurseThreadEach(ms, rank, rs, depth) ==
    IF rs = <<>>
    THEN [err |-> FALSE, thread |-> <<>>]
    ELSE LET head == recurseThread(ms, rank, Head(rs), depth)
         IN  IF head.err
             THEN head
             ELSE LET rest == recurseThreadEach(ms, rank, Tail(rs), depth)
                  IN  [err |-> rest.err, thread |-> head.thread \o rest.thread]

\* lines 78-92
get_message_thread(ms, rank, root) ==
    recurseThread(ms, rank, root, 0)


(***************************************************************************)
(* The unread queries and the cache.                                       *)
(***************************************************************************)
\* lines 145-147: Conversation.objects.filter(participants=user)
ConvsOf(u) == {c \in Conversations : u \in participants[c]}

\* conversation.get_unread_messages(user): the unread messages of the
\* conversation addressed to the user, oldest first
get_unread_messages(ms, u, conv) ==
    OrderByTimestamp(ms, {i \in Ids(ms) : /\ ms[i].conversation = conv
                                          /\ ms[i].receiver = u
                                          /\ ~ms[i].is_read},
                     [i \in Ids(ms) |-> i])

\* the unread manager: the messages addressed to the user and not read
for_user(ms, u) ==
    {i \in Ids(ms) : ms[i].receiver = u /\ ~ms[i].is_read}

\* the unread manager, as unread_inbox lists it: oldest first
unread_for_user(ms, u) ==
    OrderByTimestamp(ms, for_user(ms, u), [i \in Ids(ms) |-> i])

\* an unread filter that takes the sender for the recipient
UnreadQueryBySender(ms, u, conv) ==
    {i \in Ids(ms) : /\ ms[i].conversation = conv
                     /\ ms[i].sender = u
                     /\ ~ms[i].is_read}

\* lines 209-212: conversation.messages.filter(receiver=user, is_read=False)
UnreadQuery(ms, u, conv) ==
    {i \in Ids(ms) : /\ ms[i].conversation = conv
                     /\ ms[i].receiver = u
                     /\ ~ms[i].is_read}

\* line 214: unread_messages.update(is_read=True)
UpdateRead(ms, S) ==
    [i \in Ids(ms) |-> IF i \in S THEN [ms[i] EXCEPT !.is_read = TRUE] ELSE ms[i]]

\* lines 185-198: the unread count of every conversation of the user
ComputeUnreadCounts(ms, u) ==
    [c \in ConvsOf(u) |-> Cardinality(UnreadQuery(ms, u, c))]

\* lines 145-156: the user's conversations, each with its unread messages
\* prefetched (the rows, as far as the list shows them)
ComputeConversations(ms, u) ==
    [c \in ConvsOf(u) |->
        {<<i, ms[i].content>> : i \in {j \in for_user(ms, u) : ms[j].conversation = c}}]

\* the pk of a request that names no stored conversation
NoConv == "c0"

\* the cache_page key of the unread_messages page of a conversation
UnreadPage(conv) == "page_unread_messages/" \o conv

\* the keys the views build from the user: user_<id>_conversations and
\* user_<id>_unread_counts
UserResources == {"conversations", "unread_counts"}

\* the pages cache_page keeps
Pages == {"page_unread_counts"} \cup {UnreadPage(c) : c \in Conversations \cup {NoConv}}

Resources == UserResources \cup Pages

\* cache_page builds the key of a page from the URL of the request, and from
\* the headers named by the Vary header the view's response carries, which
\* names none: one page serves every user
AnyUser == "*"
PageKey(page) == <<AnyUser, page>>

CacheKeys == (Users \X UserResources) \cup ({AnyUser} \X Pages)
Absent == [present |-> FALSE, value |-> <<>>, expiry |-> 0]

\* an entry that is still served at the very time of its expiry
LiveAtExpiry(c, key, t) == c[key].present /\ t <= c[key].expiry

\* cache.get(key) is not None: the entry is there and has not expired
Live(c, key, t) == c[key].present /\ t < c[key].expiry

\* cache.set(key, value, 60)
CacheSet(c, key, value, t) ==
    [c EXCEPT ![key] = [present |-> TRUE, value |-> value, expiry |-> t + cache_ttl]]

\* cache.delete(key)
CacheDelete(c, key) == [c EXCEPT ![key] = Absent]

\* lines 135-159: get_queryset, as the cache it leaves and the list it returns
GetQueryset(c, ms, u, t) ==
    LET key == <<u, "conversations">> IN
    IF Live(c, key, t)
    THEN [cache |-> c, value |-> c[key].value, recomputed |-> FALSE]
    ELSE LET v == ComputeConversations(ms, u)
         IN  [cache |-> CacheSet(c, key, v, t), value |-> v, recomputed |-> TRUE]

\* lines 179-201: the body of unread_counts
UnreadCountsBody(c, ms, u, t) ==
    LET key == <<u, "unread_counts">> IN
    IF Live(c, key, t)
    THEN [cache |-> c, value |-> c[key].value, recomputed |-> FALSE]
    ELSE LET v == ComputeUnreadCounts(ms, u)
         IN  [cache |-> CacheSet(c, key, v, t), value |-> v, recomputed |-> TRUE]

\* line 173: cache_page(60) around unread_counts: a cached page is returned
\* without the view being called, the page of a call is cached
UnreadCountsPage(c, ms, u, t) ==
    LET key == PageKey("page_unread_counts") IN
    IF Live(c, key, t)
    THEN [cache |-> c, value |-> c[key].value, recomputed |-> FALSE]
    ELSE LET r == UnreadCountsBody(c, ms, u, t)
         IN  [cache |-> CacheSet(r.cache, key, r.value, t), value |-> r.value,
              recomputed |-> r.recomputed]

NoOut == [op |-> "none", user |-> "u1", conv |-> "c1", status |-> "none",
          value |-> <<>>, recomputed |-> FALSE, afterWrite |-> FALSE,
          wasClean |-> FALSE, changed |-> 0, id |-> 0, hadExpired |-> FALSE,
          other |-> <<>>, otherStatus |-> "none"]

NoResp == [by |-> "none", method |-> "none", ip |-> NoAddr, t |-> 0, status |-> "none"]
IdleLoc == [ip |-> NoAddr, t |-> 0, filtered |-> <<>>]

\* insert_data has not been called
IdleSeed == [kind |-> "none", data |-> <<>>, batch_size |-> 1, batch |-> 0,
             total_inserted |-> 0, written |-> 0, pc |-> "idle", returned |-> 0]

\* the table as the views find it: one message, between the two users
RootMessage(sender, receiver) ==
    NewMessage(sender, receiver, "c1", NoMsg, "hi", 0)

\* no view has been called
InitChatIdle ==
    /\ msgs = <<RootMessage("u1", "u2")>>
    /\ corrupted = FALSE
    /\ updated_at = [c \in Conversations |-> 0]
    /\ cache = [k \in CacheKeys |-> Absent]
    /\ out = NoOut
    /\ dirty = {}
    /\ clean = {}
    /\ nops = 0

\* no request has reached the throttle
InitThrottleIdle ==
    /\ request_counts = [i \in Identities |-> <<>>]
    /\ resp = NoResp
    /\ log = [i \in Identities |-> <<>>]
    /\ nreq = 0
    /\ pc = [th \in Threads |-> "idle"]
    /\ loc = [th \in Threads |-> IdleLoc]

InitThrottle ==
    /\ now = 0
    /\ ticks = 0
    /\ seed = IdleSeed
    /\ InitThrottleIdle
    /\ InitChatIdle

\* the clock: monotonic, advanced between requests
Tick(d) ==
    /\ ticks < MaxTicks
    /\ now' = now + d
    /\ ticks' = ticks + 1
    /\ UNCHANGED <<seed, throttleVars, chatVars>>

\* every method is throttled
IsThrottledAnyMethod(method) == TRUE

\* line 63: request.method == 'POST'
IsThrottled(method) == method = "POST"

\* every client is counted in the record of the absent address
ClientIdentityShared(addr) == NoAddr

\* line 64: request.META.get('REMOTE_ADDR'), the key of the client's record:
\* the address, or None when the request carries none
ClientIdentity(addr) == addr

\* a refusal that records the refused attempt
DeniedRecordAppends(kept, t) == Append(kept, t)

\* lines 71-74: the refusal returns before line 76, the record stays as purged
DeniedRecord(kept, t) == kept

\* lines 62-78, one request handled with no other request in between; the
\* history log is kept by the address of the client that sent the request
ThrottleCall(method, addr) ==
    /\ IF IsThrottled(method)
       THEN LET ip == ClientIdentity(addr)
                kept == Purge(request_counts[ip], now)
            IN  /\ nreq < MaxRequests
                /\ nreq' = nreq + 1
                /\ IF OverLimit(kept)
                   THEN /\ request_counts' =
                              [request_counts EXCEPT ![ip] = DeniedRecord(kept, now)]
                        /\ resp' = [method |-> method, ip |-> addr, t |-> now,
                                    status |-> "limited"]
                        /\ log' = [log EXCEPT ![addr] =
                                      Append(@, [t |-> now, ok |-> FALSE])]
                   ELSE /\ request_counts' =
                              [request_counts EXCEPT ![ip] = Append(kept, now)]
                        /\ resp' = [method |-> method, ip |-> addr, t |-> now,
                                    status |-> "passed"]
                        /\ log' = [log EXCEPT ![addr] =
                                      Append(@, [t |-> now, ok |-> TRUE])]
       ELSE /\ resp' = [method |-> method, ip |-> addr, t |-> now,
                        status |-> "passed"]
            /\ UNCHANGED <<request_counts, log, nreq>>
    /\ UNCHANGED <<now, ticks, seed, pc, loc, chatVars>>

NextThrottle ==
    \/ \E d \in Steps : Tick(d)
    \/ \E m \in Methods, i \in Identities : ThrottleCall(m, i)

\* the throttle, requests handled one after the other
SpecThrottle == InitThrottle /\ [][NextThrottle]_vars

(***************************************************************************)
(* The threaded server: the same handler, one step per line of __call__,   *)
(* several requests in flight on the one middleware object.                *)
(***************************************************************************)
\* lines 63-65: the method test, the identity and the clock are read
ConcBegin(th, method, ip) ==
    /\ pc[th] = "idle"
    /\ IF method = "POST"
       THEN /\ nreq < MaxConcRequests
            /\ nreq' = nreq + 1
            /\ loc' = [loc EXCEPT ![th] = [ip |-> ip, t |-> now, filtered |-> <<>>]]
            /\ pc' = [pc EXCEPT ![th] = "filter"]
            /\ UNCHANGED resp
       ELSE /\ resp' = [method |-> method, ip |-> ip, t |-> now,
                        status |-> "passed"]
            /\ UNCHANGED <<nreq, loc, pc>>
    /\ UNCHANGED <<now, ticks, seed, request_counts, log, chatVars>>

\* line 68, right-hand side: the list comprehension reads the record
ConcFilter(th) ==
    /\ pc[th] = "filter"
    /\ loc' = [loc EXCEPT ![th].filtered = Purge(request_counts[loc[th].ip], loc[th].t)]
    /\ pc' = [pc EXCEPT ![th] = "store"]
    /\ UNCHANGED <<now, ticks, seed, request_counts, resp, log, nreq, chatVars>>

\* line 68, assignment: the purged list replaces the record
ConcStore(th) ==
    /\ pc[th] = "store"
    /\ request_counts' = [request_counts EXCEPT ![loc[th].ip] = loc[th].filtered]
    /\ pc' = [pc EXCEPT ![th] = "check"]
    /\ UNCHANGED <<now, ticks, seed, resp, log, nreq, loc, chatVars>>

\* lines 71-74: the limit test, and the rejection
ConcCheck(th) ==
    /\ pc[th] = "check"
    /\ IF OverLimit(request_counts[loc[th].ip])
       THEN /\ resp' = [method |-> "POST", ip |-> loc[th].ip, t |-> loc[th].t,
                        status |-> "limited"]
            /\ pc' = [pc EXCEPT ![th] = "idle"]
            /\ loc' = [loc EXCEPT ![th] = IdleLoc]
       ELSE /\ pc' = [pc EXCEPT ![th] = "append"]
            /\ UNCHANGED <<resp, loc>>
    /\ UNCHANGED <<now, ticks, seed, request_counts, log, nreq, chatVars>>

\* lines 76-78: the timestamp is recorded and the request passed on
ConcAppend(th) ==
    /\ pc[th] = "append"
    /\ request_counts' = [request_counts EXCEPT ![loc[th].ip] = Append(@, loc[th].t)]
    /\ resp' = [method |-> "POST", ip |-> loc[th].ip, t |-> loc[th].t,
                status |-> "passed"]
    /\ pc' = [pc EXCEPT ![th] = "idle"]
    /\ loc' = [loc EXCEPT ![th] = IdleLoc]
    /\ UNCHANGED <<now, ticks, seed, log, nreq, chatVars>>

NextConc ==
    \/ \E d \in Steps : Tick(d)
    \/ \E th \in Threads, m \in Methods, i \in Identities : ConcBegin(th, m, i)
    \/ \E th \in Threads : ConcFilter(th)
    \/ \E th \in Threads : ConcStore(th)
    \/ \E th \in Threads : ConcCheck(th)
    \/ \E th \in Threads : ConcAppend(th)

\* k requests admitted at time 0, as the handler records them
Admitted(k) == [i \in 1..k |-> 0]

\* the threaded server starts with any record that earlier requests at time 0
\* can have left
InitConc ==
    /\ now = 0
    /\ ticks = 0
    /\ seed = IdleSeed
    /\ request_counts \in [Identities -> {Admitted(k) : k \in 0..limit}]
    /\ resp = NoResp
    /\ log = [i \in Identities |-> <<>>]
    /\ nreq = 0
    /\ pc = [th \in Threads |-> "idle"]
    /\ loc = [th \in Threads |-> IdleLoc]
    /\ InitChatIdle

\* the throttle under a threaded server
SpecConc == InitConc /\ [][NextConc]_vars

(***************************************************************************)
(* Claims on the request throttle.                                         *)
(***************************************************************************)
\* the first five checks of log L were made within 10 time units
FirstFiveInBurst(L) ==
    /\ Len(L) >= limit
    /\ L[limit].t - L[1].t <= 10

\* C1: with capacity 5 and window 60, for one identity: five checks within 10
\* time units are all admitted, a sixth check inside the same window is denied,
\* and a check made once the window has elapsed since every admitted check is
\* admitted again.
C1_BurstThenDenyThenRecover ==
    \A ip \in Identities :
        LET L == log[ip] IN
        /\ \A j \in DOMAIN L :
               (j <= limit /\ L[j].t - L[1].t <= 10) => L[j].ok
        /\ (FirstFiveInBurst(L) /\ Len(L) > limit /\ L[limit + 1].t - L[1].t < window)
               => ~L[limit + 1].ok
        /\ \A j \in DOMAIN L :
               ( /\ j > limit
                 /\ FirstFiveInBurst(L)
                 /\ \A i \in 1..(j - 1) : L[i].ok => L[j].t - L[i].t >= window )
               => L[j].ok

\* C1 witness: five admitted in a burst, a sixth denied in the same window, and
\* a seventh admitted after the window has elapsed
C1_Witness ==
    \E ip \in Identities :
        LET L == log[ip] IN
        /\ Len(L) >= limit + 2
        /\ FirstFiveInBurst(L)
        /\ \A j \in 1..limit : L[j].ok
        /\ L[limit + 1].t - L[1].t < window
        /\ ~L[limit + 1].ok
        /\ L[limit + 2].t - L[limit].t >= window
        /\ L[limit + 2].ok

\* the admitted checks of log L up to its j-th that lie in the window ending at
\* the time of the j-th check
AdmittedInWindow(L, j) ==
    {i \in 1..j : L[i].ok /\ L[j].t - L[i].t < window}

\* C3: sequential checks at non-decreasing times: for every identity and every
\* check, at most 5 admitted requests have their timestamp in the trailing
\* interval of length 60 that ends at the time of the check.
C3_SlidingBound ==
    \A ip \in Identities :
        \A j \in DOMAIN log[ip] :
            Cardinality(AdmittedInWindow(log[ip], j)) <= limit

\* C3 witness: a burst that straddles a minute boundary: admitted checks on
\* both sides of the boundary fill the window and a further check is denied
C3_Witness ==
    \E ip \in Identities :
        LET L == log[ip] IN
        \E j \in DOMAIN L :
            /\ ~L[j].ok
            /\ Cardinality(AdmittedInWindow(L, j)) = limit
            /\ \E i, k \in AdmittedInWindow(L, j) :
                   L[i].t \div window # L[k].t \div window

\* C2: under concurrent checks the record of an identity never holds more than
\* 5 timestamps inside one window.
C2_ExactCapacity ==
    \A ip \in Identities :
        LET R == request_counts[ip] IN
        \A i \in DOMAIN R :
            Cardinality({j \in DOMAIN R : R[i] - R[j] \in 0..(window - 1)}) <= limit

(***************************************************************************)
(* The views of messaging/views.py, one request handled at a time.         *)
(***************************************************************************)
Outcome(op, u, status, value) ==
    [NoOut EXCEPT !.op = op, !.user = u, !.status = status, !.value = value]

\* the conversation a reply is stored in: that of its parent
ReplyConversation(parent) == parent.conversation

\* lines 54-64
reply_message(u, method, parent_id, content) ==
    /\ IF parent_id \notin Ids(msgs)
       THEN /\ out' = Outcome("reply_message", u, "NotFound", <<>>)
            /\ UNCHANGED <<msgs, clean>>
       ELSE IF method = "POST"
       THEN LET parent == msgs[parent_id] IN
            /\ Len(msgs) < MaxMsgs
            /\ msgs' = Append(msgs, NewMessage(u, parent.receiver,
                                  ReplyConversation(parent), parent_id, content, now))
            /\ clean' = {p \in clean : p[2] # ReplyConversation(parent)}
            /\ out' = Outcome("reply_message", u, "ok", <<>>)
       ELSE /\ out' = Outcome("reply_message", u, "error", <<>>)
            /\ UNCHANGED <<msgs, clean>>
    /\ UNCHANGED <<now, ticks, seed, throttleVars, corrupted, updated_at, cache, dirty>>

\* lines 27-38
edit_message(u, method, message_id, content) ==
    /\ IF message_id \notin Ids(msgs) \/ msgs[message_id].sender # u
       THEN /\ out' = Outcome("edit_message", u, "NotFound", <<>>)
            /\ UNCHANGED msgs
       ELSE IF method = "POST"
       THEN /\ msgs' = [msgs EXCEPT ![message_id].content = content]
            /\ out' = Outcome("edit_message", u, "ok", <<>>)
       ELSE /\ out' = Outcome("edit_message", u, "form", <<>>)
            /\ UNCHANGED msgs
    /\ UNCHANGED <<now, ticks, seed, throttleVars, corrupted, updated_at, cache, dirty, clean>>

\* lines 69-74
unread_inbox(u) ==
    /\ out' = Outcome("unread_inbox", u, "ok", unread_for_user(msgs, u))
    /\ UNCHANGED <<now, ticks, seed, throttleVars, msgs, corrupted, updated_at, cache, dirty, clean>>

\* the conversation list of the view set, read through get_queryset
list_conversations(u) ==
    LET r == GetQueryset(cache, msgs, u, now) IN
    /\ cache' = r.cache
    /\ out' = [Outcome("conversations", u, "ok", r.value) EXCEPT
                  !.recomputed = r.recomputed,
                  !.afterWrite = (<<u, "conversations">> \in dirty),
                  !.hadExpired = (/\ cache[<<u, "conversations">>].present
                                  /\ now >= cache[<<u, "conversations">>].expiry)]
    /\ dirty' = dirty \ {<<u, "conversations">>}
    /\ UNCHANGED <<now, ticks, seed, throttleVars, msgs, corrupted, updated_at, clean>>

\* lines 173-201
unread_counts(u) ==
    LET r == UnreadCountsPage(cache, msgs, u, now) IN
    /\ cache' = r.cache
    /\ out' = [Outcome("unread_counts", u, "ok", r.value) EXCEPT
                  !.recomputed = r.recomputed,
                  !.afterWrite = (<<u, "unread_counts">> \in dirty),
                  !.hadExpired = (/\ cache[PageKey("page_unread_counts")].present
                                  /\ now >= cache[PageKey("page_unread_counts")].expiry)]
    /\ dirty' = dirty \ {<<u, "unread_counts">>}
    /\ UNCHANGED <<now, ticks, seed, throttleVars, msgs, corrupted, updated_at, clean>>

\* lines 203-223; get_object reads the conversation through get_queryset
mark_all_as_read(u, conv) ==
    LET q == GetQueryset(cache, msgs, u, now) IN
    /\ IF conv \notin ConvsOf(u)
       THEN /\ cache' = q.cache
            /\ out' = [Outcome("mark_all_as_read", u, "NotFound", 0) EXCEPT
                          !.conv = conv]
            /\ UNCHANGED <<msgs, dirty, clean>>
       ELSE LET unread_messages == UnreadQuery(msgs, u, conv)
                updated == UpdateRead(msgs, unread_messages)
            IN  /\ msgs' = updated
                /\ cache' = CacheDelete(CacheDelete(q.cache, <<u, "unread_counts">>),
                                        <<u, "conversations">>)
                /\ out' = [Outcome("mark_all_as_read", u, "ok",
                                   Cardinality(UnreadQuery(updated, u, conv))) EXCEPT
                              !.conv = conv,
                              !.changed = Cardinality(unread_messages),
                              !.wasClean = (<<u, conv>> \in clean)]
                /\ dirty' = dirty \cup {<<u, "unread_counts">>, <<u, "conversations">>}
                /\ clean' = clean \cup {<<u, conv>>}
    /\ UNCHANGED <<now, ticks, seed, throttleVars, corrupted, updated_at>>

\* lines 94-106
message_detail(u, message_id, rank) ==
    /\ IF message_id \notin Ids(msgs)
       THEN out' = Outcome("message_detail", u, "NotFound", <<>>)
       ELSE LET r == get_threaded_replies(msgs, rank, message_id) IN
            out' = [Outcome("message_detail", u,
                            IF r.err THEN "RecursionError" ELSE "ok", r.thread)
                       EXCEPT !.id = message_id]
    /\ UNCHANGED <<now, ticks, seed, throttleVars, msgs, corrupted, updated_at, cache, dirty, clean>>

\* a parent link is overwritten behind the views; the table does not prevent it
Corrupt(id, parent) ==
    /\ ~corrupted
    /\ id \in Ids(msgs)
    /\ parent \in Ids(msgs) \cup {NoMsg}
    /\ parent # msgs[id].parent_message
    /\ msgs' = [msgs EXCEPT ![id].parent_message = parent]
    /\ corrupted' = TRUE
    /\ out' = NoOut
    /\ UNCHANGED <<now, ticks, seed, throttleVars, updated_at, cache, dirty, clean, nops>>

InitThread ==
    /\ now = 0
    /\ ticks = 0
    /\ seed = IdleSeed
    /\ InitThrottleIdle
    /\ InitChatIdle

\* between two messages the clock moves by one unit at most: only the order
\* of the timestamps matters to a thread
NextThread ==
    \/ msgs[Len(msgs)].timestamp = now /\ Tick(1)
    \/ \E p \in 1..(Len(msgs) + 1) :
           reply_message("u1", "POST", p, "hi") /\ UNCHANGED nops
    \/ \E id \in 1..(Len(msgs) + 1) : \E rank \in Ranks(Len(msgs)) :
           message_detail("u1", id, rank) /\ UNCHANGED nops
    \/ \E id \in Ids(msgs), p \in 0..Len(msgs) : Corrupt(id, p)

\* threads of replies, built by reply_message and resolved by message_detail
SpecThread == InitThread /\ [][NextThread]_vars

InitChat ==
    /\ now = 0
    /\ ticks = 0
    /\ seed = IdleSeed
    /\ InitThrottleIdle
    /\ \E s, r \in Users : s # r /\ msgs = <<RootMessage(s, r)>>
    /\ corrupted = FALSE
    /\ updated_at = [c \in Conversations |-> 0]
    /\ cache = [k \in CacheKeys |-> Absent]
    /\ out = NoOut
    /\ dirty = {}
    /\ clean = {}
    /\ nops = 0

\* one more view call is made
Called == nops < MaxOps /\ nops' = nops + 1

NextChat ==
    \/ \E u \in Users, m \in Methods, p \in 1..(Len(msgs) + 1) :
           reply_message(u, m, p, "hi") /\ Called
    \/ \E u \in Users, m \in Methods, id \in 1..(Len(msgs) + 1), c \in Contents :
           edit_message(u, m, id, c) /\ Called
    \/ \E u \in Users : unread_inbox(u) /\ Called
    \/ \E u \in Users : list_conversations(u) /\ Called
    \/ \E u \in Users : unread_counts(u) /\ Called
    \/ \E u \in Users, c \in Conversations : mark_all_as_read(u, c) /\ Called

\* the message views and their cache, within one timeout of the cache
SpecChat == InitChat /\ [][NextChat]_vars

(***************************************************************************)
(* Claims on the thread resolver.                                          *)
(***************************************************************************)
Children(ms, id) == {i \in Ids(ms) : ms[i].parent_message = id}

\* the messages of S and everything that replies to them, directly or not
RECURSIVE Reach(_, _)
Reach(ms, S) ==
    LET next == S \cup {i \in Ids(ms) : ms[i].parent_message \in S}
    IN  IF next = S THEN S ELSE Reach(ms, next)

\* the message and all its descendants
Subtree(ms, id) == Reach(ms, {id})

\* the descendants of the message
Below(ms, id) ==
    IF Children(ms, id) = {} THEN {} ELSE Reach(ms, Children(ms, id))

\* no message is its own ancestor
Acyclic(ms) == \A m \in Ids(ms) : m \notin Below(ms, m)

\* the parent links reachable from the message contain a cycle
CycleBelow(ms, id) == \E m \in Subtree(ms, id) : m \in Below(ms, m)

NoDuplicates(th) ==
    \A j, k \in DOMAIN th : th[j][1] = th[k][1] => j = k

\* where message x stands in thread th
Pos(th, x) == CHOOSE k \in DOMAIN th : th[k][1] = x

Scenario(ms) ==
    /\ Len(ms) = 4
    /\ ms[1].parent_message = NoMsg
    /\ ms[2].parent_message = 1
    /\ ms[3].parent_message = 2
    /\ ms[4].parent_message = 1
    /\ ms[2].timestamp < ms[3].timestamp
    /\ ms[3].timestamp < ms[4].timestamp

\* C5: the resolved thread is in pre-order: of two siblings with distinct
\* timestamps, the earlier and its whole subtree come before the later and its
\* subtree; for R with replies A (t=1), B (t=2) and C (t=1.5) a reply to A the
\* result is [(R,0), (A,1), (C,2), (B,1)].
C5_PreOrder ==
    (out.op = "message_detail" /\ out.status = "ok") =>
        LET th == out.value
            inThread == {th[k][1] : k \in DOMAIN th}
        IN  /\ \A a, b \in inThread :
                   ( /\ a # out.id /\ b # out.id
                     /\ msgs[a].parent_message = msgs[b].parent_message
                     /\ msgs[a].timestamp < msgs[b].timestamp )
                   => \A x \in Subtree(msgs, a), y \in Subtree(msgs, b) :
                          Pos(th, x) < Pos(th, y)
            /\ (Scenario(msgs) /\ out.id = 1)
                   => th = << <<1, 0>>, <<2, 1>>, <<3, 2>>, <<4, 1>> >>

\* C5 witness: the scenario's thread, resolved from its root
C5_Witness ==
    /\ out.op = "message_detail"
    /\ out.status = "ok"
    /\ out.id = 1
    /\ Scenario(msgs)

\* C6: when the parent links reachable from the root contain a cycle, the
\* resolution fails with CorruptThread the first time a message would be
\* visited twice.
C6_CycleFailsCorruptThread ==
    (out.op = "message_detail" /\ out.status # "NotFound" /\ CycleBelow(msgs, out.id)) =>
        /\ out.status = "CorruptThread"
        /\ NoDuplicates(out.value)

(***************************************************************************)
(* Claims on the unread index and the cache.                               *)
(***************************************************************************)
\* C7: mark_read reports the number of messages it turned from unread to read.
C7_MarkReadReportsCount ==
    (out.op = "mark_all_as_read" /\ out.status = "ok") =>
        out.value = out.changed

C9_ReadAfterInvalidationRecomputes ==
    (out.op \in {"unread_counts", "conversations"} /\ out.afterWrite) =>
        out.value = IF out.op = "unread_counts"
                    THEN ComputeUnreadCounts(msgs, out.user)
                    ELSE ComputeConversations(msgs, out.user)

\* C10: when reply_message, edit_message or mark_all_as_read has returned
\* success, no cached conversation list and no cached unread count differs
\* from what the table now gives.
C10_MutationInvalidates ==
    (out.op \in {"reply_message", "edit_message", "mark_all_as_read"}
        /\ out.status = "ok") =>
        \A u \in Users :
            /\ Live(cache, <<u, "unread_counts">>, now) =>
                   cache[<<u, "unread_counts">>].value = ComputeUnreadCounts(msgs, u)
            /\ Live(cache, <<u, "conversations">>, now) =>
                   cache[<<u, "conversations">>].value = ComputeConversations(msgs, u)

(***************************************************************************)
(* The view set under a threaded server: unread_counts and                 *)
(* mark_all_as_read, one step per cache or database call, each request     *)
(* thread handling one request.                                            *)
(***************************************************************************)
\* the locals of a request thread of the view set
IdleView == [op |-> "none", user |-> "u1", conv |-> "c1", data |-> <<>>,
             changed |-> 0, reported |-> 0, status |-> "none", after |-> {},
             method |-> "none", id |-> 0, content |-> ""]

\* the lines a thread is at inside mark_all_as_read
WriterLines == {"get_object", "update", "delete_counts", "delete_conversations", "count"}

\* the lines a thread is at inside unread_counts
ReaderLines == {"page_get", "get", "compute", "set", "page_set"}

\* a GET of unread_counts arrives
ReadBegin(th, u) ==
    /\ pc[th] = "idle"
    /\ pc' = [pc EXCEPT ![th] = "page_get"]
    /\ loc' = [loc EXCEPT ![th] = [IdleView EXCEPT !.op = "unread_counts",
                                      !.user = u,
                                      !.after = {p \in clean : p[1] = u}]]
    /\ UNCHANGED <<now, ticks, seed, request_counts, resp, log, nreq, chatVars>>

\* line 173, cache_page on the way in: a cached page is the response
ReadPageGet(th) ==
    /\ pc[th] = "page_get"
    /\ LET key == PageKey("page_unread_counts") IN
       IF Live(cache, key, now)
       THEN /\ loc' = [loc EXCEPT ![th].data = cache[key].value, ![th].status = "ok"]
            /\ pc' = [pc EXCEPT ![th] = "done"]
            /\ out' = Outcome("unread_counts", loc[th].user, "ok", cache[key].value)
       ELSE /\ pc' = [pc EXCEPT ![th] = "get"]
            /\ UNCHANGED <<loc, out>>
    /\ UNCHANGED <<now, ticks, seed, request_counts, resp, log, nreq,
                   msgs, corrupted, updated_at, cache, dirty, clean, nops>>

\* lines 179-183: cache.get, and the early return
ReadGet(th) ==
    /\ pc[th] = "get"
    /\ LET key == <<loc[th].user, "unread_counts">> IN
       IF Live(cache, key, now)
       THEN /\ loc' = [loc EXCEPT ![th].data = cache[key].value]
            /\ pc' = [pc EXCEPT ![th] = "page_set"]
       ELSE /\ pc' = [pc EXCEPT ![th] = "compute"]
            /\ UNCHANGED loc
    /\ UNCHANGED <<now, ticks, seed, request_counts, resp, log, nreq, chatVars>>

\* lines 185-198: the counts are read from the table
ReadCompute(th) ==
    /\ pc[th] = "compute"
    /\ loc' = [loc EXCEPT ![th].data = ComputeUnreadCounts(msgs, loc[th].user)]
    /\ pc' = [pc EXCEPT ![th] = "set"]
    /\ UNCHANGED <<now, ticks, seed, request_counts, resp, log, nreq, chatVars>>

\* line 200: cache.set
ReadSet(th) ==
    /\ pc[th] = "set"
    /\ cache' = CacheSet(cache, <<loc[th].user, "unread_counts">>, loc[th].data, now)
    /\ pc' = [pc EXCEPT ![th] = "page_set"]
    /\ UNCHANGED <<now, ticks, seed, request_counts, resp, log, nreq, loc,
                   msgs, corrupted, updated_at, out, dirty, clean, nops>>

\* lines 183, 201 and 173: the response, cached as a page on the way out
ReadPageSet(th) ==
    /\ pc[th] = "page_set"
    /\ cache' = CacheSet(cache, PageKey("page_unread_counts"), loc[th].data, now)
    /\ loc' = [loc EXCEPT ![th].status = "ok"]
    /\ pc' = [pc EXCEPT ![th] = "done"]
    /\ out' = Outcome("unread_counts", loc[th].user, "ok", loc[th].data)
    /\ UNCHANGED <<now, ticks, seed, request_counts, resp, log, nreq,
                   msgs, corrupted, updated_at, dirty, clean, nops>>

\* a POST of mark_all_as_read arrives
MarkBegin(th, u, conv) ==
    /\ pc[th] = "idle"
    /\ pc' = [pc EXCEPT ![th] = "get_object"]
    /\ loc' = [loc EXCEPT ![th] = [IdleView EXCEPT !.op = "mark_all_as_read",
                                      !.user = u, !.conv = conv]]
    /\ UNCHANGED <<now, ticks, seed, request_counts, resp, log, nreq, chatVars>>

\* line 208: get_object, through get_queryset
MarkGetObject(th) ==
    /\ pc[th] = "get_object"
    /\ LET q == GetQueryset(cache, msgs, loc[th].user, now) IN
       /\ cache' = q.cache
       /\ IF loc[th].conv \notin ConvsOf(loc[th].user)
          THEN /\ loc' = [loc EXCEPT ![th].status = "NotFound"]
               /\ pc' = [pc EXCEPT ![th] = "done"]
               /\ out' = [Outcome("mark_all_as_read", loc[th].user, "NotFound", 0)
                             EXCEPT !.conv = loc[th].conv]
          ELSE /\ pc' = [pc EXCEPT ![th] = "update"]
               /\ UNCHANGED <<loc, out>>
    /\ UNCHANGED <<now, ticks, seed, request_counts, resp, log, nreq,
                   msgs, corrupted, updated_at, dirty, clean, nops>>

\* lines 209-214: the UPDATE statement, one statement of the database
MarkUpdate(th) ==
    /\ pc[th] = "update"
    /\ LET unread_messages == UnreadQuery(msgs, loc[th].user, loc[th].conv) IN
       /\ msgs' = UpdateRead(msgs, unread_messages)
       /\ loc' = [loc EXCEPT ![th].changed = Cardinality(unread_messages)]
    /\ pc' = [pc EXCEPT ![th] = "delete_counts"]
    /\ UNCHANGED <<now, ticks, seed, request_counts, resp, log, nreq,
                   corrupted, updated_at, cache, out, dirty, clean, nops>>

\* lines 217-218: cache.delete of the unread counts
MarkDeleteCounts(th) ==
    /\ pc[th] = "delete_counts"
    /\ cache' = CacheDelete(cache, <<loc[th].user, "unread_counts">>)
    /\ pc' = [pc EXCEPT ![th] = "delete_conversations"]
    /\ UNCHANGED <<now, ticks, seed, request_counts, resp, log, nreq, loc,
                   msgs, corrupted, updated_at, out, dirty, clean, nops>>

\* line 219: cache.delete of the conversation list
MarkDeleteConversations(th) ==
    /\ pc[th] = "delete_conversations"
    /\ cache' = CacheDelete(cache, <<loc[th].user, "conversations">>)
    /\ pc' = [pc EXCEPT ![th] = "count"]
    /\ UNCHANGED <<now, ticks, seed, request_counts, resp, log, nreq, loc,
                   msgs, corrupted, updated_at, out, dirty, clean, nops>>

\* lines 221-223: unread_messages.count(), and the response
MarkCount(th) ==
    /\ pc[th] = "count"
    /\ LET n == Cardinality(UnreadQuery(msgs, loc[th].user, loc[th].conv)) IN
       /\ loc' = [loc EXCEPT ![th].reported = n, ![th].status = "ok"]
       /\ out' = [Outcome("mark_all_as_read", loc[th].user, "ok", n) EXCEPT
                     !.conv = loc[th].conv, !.changed = loc[th].changed]
    /\ clean' = clean \cup {<<loc[th].user, loc[th].conv>>}
    /\ pc' = [pc EXCEPT ![th] = "done"]
    /\ UNCHANGED <<now, ticks, seed, request_counts, resp, log, nreq,
                   msgs, corrupted, updated_at, cache, dirty, nops>>

InitRace ==
    /\ now = 0
    /\ ticks = 0
    /\ seed = IdleSeed
    /\ request_counts = [i \in Identities |-> <<>>]
    /\ resp = NoResp
    /\ log = [i \in Identities |-> <<>>]
    /\ nreq = 0
    /\ pc = [th \in Threads |-> "idle"]
    /\ loc = [th \in Threads |-> IdleView]
    /\ \E s, r \in Users : s # r /\ msgs = <<RootMessage(s, r)>>
    /\ corrupted = FALSE
    /\ updated_at = [c \in Conversations |-> 0]
    /\ cache = [k \in CacheKeys |-> Absent]
    /\ out = NoOut
    /\ dirty = {}
    /\ clean = {}
    /\ nops = 0

NextRace ==
    \/ \E th \in Threads, u \in Users : ReadBegin(th, u)
    \/ \E th \in Threads : ReadPageGet(th)
    \/ \E th \in Threads : ReadGet(th)
    \/ \E th \in Threads : ReadCompute(th)
    \/ \E th \in Threads : ReadSet(th)
    \/ \E th \in Threads : ReadPageSet(th)
    \/ \E th \in Threads, u \in Users, c \in Conversations : MarkBegin(th, u, c)
    \/ \E th \in Threads : MarkGetObject(th)
    \/ \E th \in Threads : MarkUpdate(th)
    \/ \E th \in Threads : MarkDeleteCounts(th)
    \/ \E th \in Threads : MarkDeleteConversations(th)
    \/ \E th \in Threads : MarkCount(th)

\* unread_counts and mark_all_as_read handled by concurrent request threads
SpecRace == InitRace /\ [][NextRace]_vars

\* C11: once every mark_all_as_read has returned, the cache holds under the
\* unread-counts key of a user no value that a reader computed from the table
\* as it was before the write: a cached entry equals what the table gives.
C11_InvalidationBeforeRepopulation ==
    (\A th \in Threads : pc[th] \notin WriterLines) =>
        \A u \in Users :
            cache[<<u, "unread_counts">>].present =>
                cache[<<u, "unread_counts">>].value = ComputeUnreadCounts(msgs, u)

(***************************************************************************)
(* The cached reads over more than one timeout of the cache.               *)
(***************************************************************************)
\* the clock moves by one second, or to one second before a whole timeout
TtlSteps == {1, cache_ttl - 1}

NextExpiry ==
    \/ \E d \in TtlSteps : Tick(d)
    \/ \E u \in Users : list_conversations(u) /\ Called
    \/ \E u \in Users : unread_counts(u) /\ Called
    \/ \E u \in Users, c \in Conversations : mark_all_as_read(u, c) /\ Called

\* the cached reads and mark_all_as_read, the clock running
SpecExpiry == InitChat /\ [][NextExpiry]_vars

\* the entry under the key is there and the clock is before its expiry
Unexpired(key) == cache[key].present /\ now < cache[key].expiry

\* this step is a read of the resource by the user
ReadOf(u, op) == nops' = nops + 1 /\ out'.op = op /\ out'.user = u

\* C12: no cached value is served at or after its expiry: an entry written at
\* time t expires at t + 60; a read of the conversation list or of the unread
\* counts that finds no entry of its path before its expiry recomputes the
\* value from the table and stores it with a fresh expiry, and a value that
\* was not recomputed comes from an entry that has not expired.
C12_NoServeAfterExpiry ==
    [][ \A u \in Users :
          LET list == <<u, "conversations">>
              counts == <<u, "unread_counts">>
              page == PageKey("page_unread_counts")
          IN  /\ ReadOf(u, "conversations") =>
                  /\ ~Unexpired(list) =>
                         /\ out'.recomputed
                         /\ out'.value = ComputeConversations(msgs, u)
                         /\ cache'[list].expiry = now + cache_ttl
                  /\ ~out'.recomputed =>
                         Unexpired(list) /\ out'.value = cache[list].value
              /\ ReadOf(u, "unread_counts") =>
                  /\ (~Unexpired(page) /\ ~Unexpired(counts)) =>
                         /\ out'.recomputed
                         /\ out'.value = ComputeUnreadCounts(msgs, u)
                         /\ cache'[counts].expiry = now + cache_ttl
                         /\ cache'[page].expiry = now + cache_ttl
                  /\ ~out'.recomputed =>
                         \E k \in {page, counts} :
                             Unexpired(k) /\ out'.value = cache[k].value
              /\ \A k \in {list, counts, page} :
                     cache'[k].present => cache'[k].expiry <= now' + cache_ttl
      ]_vars

\* C12 witness: with no invalidation ever made, a read at the very time the
\* entry of its path expires, which recomputes and stores a fresh expiry
C12_Witness ==
    /\ out.op \in {"conversations", "unread_counts"}
    /\ out.hadExpired
    /\ out.recomputed
    /\ clean = {}
    /\ now = cache_ttl
    /\ cache[<<out.user, out.op>>].expiry = now + cache_ttl

(***************************************************************************)
(* Claims on who a message is unread for.                                  *)
(***************************************************************************)
\* the unread messages of the conversation that another user sent to the user
UnreadFromOthers(ms, u, conv) ==
    {i \in Ids(ms) : /\ ms[i].conversation = conv
                     /\ ms[i].receiver = u
                     /\ ms[i].sender # u
                     /\ ~ms[i].is_read}

\* C13: after any sequence of replies, edits and mark_all_as_read calls, no
\* message is counted by the unread counts, nor listed by the unread inbox, as
\* unread for the user who sent it.
C13_NeverUnreadForSender ==
    \A u \in Users :
        /\ \A c \in ConvsOf(u) :
               ComputeUnreadCounts(msgs, u)[c] = Cardinality(UnreadFromOthers(msgs, u, c))
        /\ LET inbox == unread_for_user(msgs, u)
           IN  \A k \in DOMAIN inbox : msgs[inbox[k]].sender # u

(***************************************************************************)
(* Claims on concurrent mark_all_as_read and unread reads.                 *)
(***************************************************************************)
\* the thread has answered a mark_all_as_read of the conversation by the user
MarkDone(th, u, conv) ==
    /\ pc[th] = "done"
    /\ loc[th].op = "mark_all_as_read"
    /\ loc[th].status = "ok"
    /\ loc[th].user = u
    /\ loc[th].conv = conv

\* C14: a read of the unread counts that starts after a mark_all_as_read of
\* the user has returned reports no unread message in the conversation it
\* covered, and two concurrent mark_all_as_read calls of one user on one
\* conversation never count a message twice: the counts they report add up
\* to the number of messages that were turned from unread to read.
C14_MarkReadAtomic ==
    /\ \A th \in Threads :
           (pc[th] = "done" /\ loc[th].op = "unread_counts") =>
               \A p \in loc[th].after : loc[th].data[p[2]] = 0
    /\ \A t1, t2 \in Threads : \A u \in Users, c \in Conversations :
           (t1 # t2 /\ MarkDone(t1, u, c) /\ MarkDone(t2, u, c)) =>
               loc[t1].reported + loc[t2].reported = loc[t1].changed + loc[t2].changed

(***************************************************************************)
(* The views of one conversation, called by participants and by others.    *)
(***************************************************************************)
\* lines 161-171, under cache_page(60); get_object reads the conversation
\* through get_queryset
unread_messages(u, conv) ==
    LET key == PageKey(UnreadPage(conv)) IN
    /\ IF Live(cache, key, now)
       THEN /\ out' = [Outcome("unread_messages", u, "ok", cache[key].value)
                          EXCEPT !.conv = conv]
            /\ UNCHANGED cache
       ELSE LET q == GetQueryset(cache, msgs, u, now) IN
            IF conv \notin ConvsOf(u)
            THEN /\ cache' = q.cache
                 /\ out' = [Outcome("unread_messages", u, "NotFound", <<>>)
                               EXCEPT !.conv = conv]
            ELSE LET page == get_unread_messages(msgs, u, conv) IN
                 /\ cache' = CacheSet(q.cache, key, page, now)
                 /\ out' = [Outcome("unread_messages", u, "ok", page)
                               EXCEPT !.conv = conv, !.recomputed = TRUE]
    /\ UNCHANGED <<now, ticks, seed, throttleVars, msgs, corrupted, updated_at, dirty, clean>>

NextAccess ==
    \/ \E u \in Users, p \in 1..Len(msgs) :
           reply_message(u, "POST", p, "hi") /\ Called
    \/ \E u \in Users, c \in Conversations \cup {NoConv} :
           mark_all_as_read(u, c) /\ Called
    \/ \E u \in Users, c \in Conversations \cup {NoConv} :
           unread_messages(u, c) /\ Called

\* the views of one conversation, for every user and every pk
SpecAccess == InitChat /\ [][NextAccess]_vars

\* the step answers the user's call of the view on the conversation
AnswerOf(op, u, conv) ==
    /\ nops' = nops + 1
    /\ out'.op = op
    /\ out'.user = u
    /\ out'.conv = conv

\* C15: mark_all_as_read and unread_messages, called on a conversation that
\* does not exist or that the calling user is no participant of, answer
\* NotFound, not an empty result, and change no message.
C15_NotFoundForOutsiders ==
    [][ \A u \in Users, c \in Conversations \cup {NoConv} :
          \A op \in {"mark_all_as_read", "unread_messages"} :
              ( /\ AnswerOf(op, u, c)
                /\ (c \notin Conversations \/ u \notin participants[c]) )
              => /\ out'.status = "NotFound"
                 /\ msgs' = msgs
      ]_vars

(***************************************************************************)
(* RestrictAccessByTimeMiddleware and RolepermissionMiddleware: the two    *)
(* middlewares that decide on the request alone.                           *)
(***************************************************************************)
\* middleware.py line 45: the hours between which access is blocked
start_hour == 18
end_hour == 21

\* the clock read as a time of day: seconds in an hour, hours in a day
SecondsPerHour == 3600
HoursPerDay == 24

\* line 44: datetime.now().hour
Hour(t) == (t \div SecondsPerHour) % HoursPerDay

\* the time of day h:m, in seconds
TimeOfDay(h, m) == h * SecondsPerHour + m * 60

\* the times at which the server is observed: every hour of the day, on the
\* hour, at half past and in the last minute
TimesOfDay == {TimeOfDay(h, m) : h \in 0..(HoursPerDay - 1), m \in {0, 30, 59}}

\* a window that is closed at its upper end
InRestrictedWindowClosed(h) == start_hour <= h /\ h <= end_hour

\* line 45: 18 <= current_hour < 21
InRestrictedWindow(h) == start_hour <= h /\ h < end_hour

\* request.path
Paths == {"/admin/users/", "/moderate/", "/api/chat/delete/7/", "/api/chat/",
          "/administrator/", "/admin", "/", "/api/moderate/"}

\* lines 86-90: self.protected_paths
protected_paths == <<"/admin/", "/moderate/", "/api/chat/delete/">>

\* line 100: the roles that pass
allowed_roles == {"admin", "moderator"}

\* str.startswith
StartsWith(path, prefix) ==
    /\ Len(path) >= Len(prefix)
    /\ SubSeq(path, 1, Len(prefix)) = prefix

\* a prefix test that ignores the final slash of the prefix
IsProtectedLoosePrefix(path) ==
    \E i \in DOMAIN protected_paths :
        StartsWith(path, SubSeq(protected_paths[i], 1, Len(protected_paths[i]) - 1))

\* line 93: any(request.path.startswith(path) for path in self.protected_paths)
IsProtected(path) ==
    \E i \in DOMAIN protected_paths : StartsWith(path, protected_paths[i])

\* request.user: whether it is authenticated, whether it has a role
\* attribute, and the role
NoRole == "none"
Roles == {"admin", "moderator", "member"}
Principals ==
    {[is_authenticated |-> a, has_role |-> TRUE, role |-> r] :
         a \in BOOLEAN, r \in Roles}
    \cup {[is_authenticated |-> a, has_role |-> FALSE, role |-> NoRole] :
              a \in BOOLEAN}

\* the texts of the three refusals, lines 95, 98 and 101
AuthenticationRequired == "Authentication required"
RoleNotDefined == "User role not defined"
PrivilegesRequired == "Admin or moderator privileges required"
Passed == "passed"

\* a gate that looks at the role before it looks at the authentication
RoleGateRoleFirst(user, path) ==
    IF IsProtected(path)
    THEN IF ~user.has_role THEN RoleNotDefined
         ELSE IF user.role \notin allowed_roles THEN PrivilegesRequired
         ELSE IF ~user.is_authenticated THEN AuthenticationRequired
         ELSE Passed
    ELSE Passed

\* lines 93-103: the refusal of the gate, or Passed
RoleGate(user, path) ==
    IF IsProtected(path)
    THEN IF ~user.is_authenticated THEN AuthenticationRequired
         ELSE IF ~user.has_role THEN RoleNotDefined
         ELSE IF user.role \notin allowed_roles THEN PrivilegesRequired
         ELSE Passed
    ELSE Passed

\* lines 43-50
RestrictAccessByTime(method, ip, path) ==
    /\ resp' = [by |-> "RestrictAccessByTimeMiddleware", method |-> method,
                ip |-> ip, path |-> path, t |-> now,
                status |-> IF InRestrictedWindow(Hour(now))
                           THEN "forbidden" ELSE "passed"]
    /\ UNCHANGED <<now, ticks, seed, request_counts, log, nreq, pc, loc, chatVars>>

\* lines 92-103
Rolepermission(user, path) ==
    /\ resp' = [by |-> "RolepermissionMiddleware", user |-> user,
                path |-> path, t |-> now,
                status |-> IF RoleGate(user, path) = Passed
                           THEN "passed" ELSE "forbidden",
                reason |-> RoleGate(user, path)]
    /\ UNCHANGED <<now, ticks, seed, request_counts, log, nreq, pc, loc, chatVars>>

InitGates ==
    /\ now \in TimesOfDay
    /\ ticks = 0
    /\ seed = IdleSeed
    /\ InitThrottleIdle
    /\ InitChatIdle

NextGates ==
    \/ \E m \in Methods, i \in Identities, p \in Paths : RestrictAccessByTime(m, i, p)
    \/ \E u \in Principals, p \in Paths : Rolepermission(u, p)

\* the time guard and the role gate, at every time of the day
SpecGates == InitGates /\ [][NextGates]_vars

\* a request was answered by the time guard
ByTimeGuard == resp.by = "RestrictAccessByTimeMiddleware"

\* a request was answered by the role gate
ByRoleGate == resp.by = "RolepermissionMiddleware"

\* C16: the time guard refuses a request exactly when the hour of the clock
\* is 18, 19 or 20 (so at 19:30, and not at 21:00), whatever the identity,
\* the method and the path of the request, passes every other request on to
\* the handler, and changes no state of the server.
C16_WindowHalfOpen ==
    /\ [](ByTimeGuard =>
            /\ resp.status \in {"forbidden", "passed"}
            /\ resp.status = "forbidden" <=>
                   (resp.t \div 3600) % 24 \in {18, 19, 20}
            /\ resp.t = 19 * 3600 + 30 * 60 => resp.status = "forbidden"
            /\ resp.t = 21 * 3600 => resp.status = "passed")
    /\ [][(resp'.by = "RestrictAccessByTimeMiddleware" /\ resp' # resp) =>
             UNCHANGED <<now, ticks, seed, request_counts, log, nreq, pc, loc, chatVars>>]_vars

\* C16 witness: a POST at 19:30 is refused
C16_Witness ==
    /\ ByTimeGuard
    /\ resp.t = 19 * 3600 + 30 * 60
    /\ resp.method = "POST"
    /\ resp.status = "forbidden"

\* the path starts with one of the three protected prefixes
ProtectedPrefix(path) ==
    \E prefix \in {"/admin/", "/moderate/", "/api/chat/delete/"} :
        /\ Len(path) >= Len(prefix)
        /\ SubSeq(path, 1, Len(prefix)) = prefix

\* C17: on a path under a protected prefix the role gate refuses an
\* unauthenticated principal as unauthenticated even when it carries a role,
\* an authenticated principal without role attribute as having no role, and an
\* authenticated principal whose role is neither admin nor moderator (such as
\* member) as of insufficient role, the three reasons being distinct; an
\* authenticated admin or moderator is passed on to the handler.
C17_RoleGateReasons ==
    (ByRoleGate /\ ProtectedPrefix(resp.path)) =>
        LET user == resp.user IN
        /\ ~user.is_authenticated =>
               (resp.status = "forbidden" /\ resp.reason = "Authentication required")
        /\ (user.is_authenticated /\ ~user.has_role) =>
               (resp.status = "forbidden" /\ resp.reason = "User role not defined")
        /\ (user.is_authenticated /\ user.has_role
                /\ user.role \notin {"admin", "moderator"}) =>
               (resp.status = "forbidden"
                   /\ resp.reason = "Admin or moderator privileges required")
        /\ (user.is_authenticated /\ user.has_role
                /\ user.role \in {"admin", "moderator"}) =>
               resp.status = "passed"

\* C17 witness: an unauthenticated principal that carries the role admin is
\* refused as unauthenticated on a protected path
C17_Witness ==
    /\ ByRoleGate
    /\ ProtectedPrefix(resp.path)
    /\ ~resp.user.is_authenticated
    /\ resp.user.has_role
    /\ resp.user.role = "admin"
    /\ resp.reason = "Authentication required"

\* C18: a request whose path starts with none of the protected prefixes
\* passes the role gate, whoever the principal is: unauthenticated, without a
\* role, or with any role.
C18_OtherPathsPass ==
    (ByRoleGate /\ ~ProtectedPrefix(resp.path)) => resp.status = "passed"

\* C18 witness: an unauthenticated principal without a role passes on a path
\* that resembles a protected one
C18_Witness ==
    /\ ByRoleGate
    /\ resp.path = "/admin"
    /\ ~resp.user.is_authenticated
    /\ ~resp.user.has_role
    /\ resp.status = "passed"

(***************************************************************************)
(* Claims on the order of a resolved thread.                               *)
(***************************************************************************)
\* C19: the order of a resolved thread is deterministic and total: replies of
\* one message that carry the same timestamp come in the order of their
\* identifiers, and two resolutions of the same root over an unchanged table
\* return the same sequence.
C19_DeterministicOrder ==
    /\ []((out.op = "message_detail" /\ out.status = "ok") =>
            \A j, k \in DOMAIN out.value :
                LET a == out.value[j][1]
                    b == out.value[k][1]
                IN  ( /\ a # out.id /\ b # out.id
                      /\ msgs[a].parent_message = msgs[b].parent_message
                      /\ msgs[a].timestamp = msgs[b].timestamp
                      /\ a < b ) => j < k)
    /\ [][( /\ out.op = "message_detail" /\ out.status = "ok"
            /\ out'.op = "message_detail" /\ out'.status = "ok"
            /\ out'.id = out.id
            /\ msgs' = msgs ) => out'.value = out.value]_vars

(***************************************************************************)
(* Conversation.updated_at and the messages stored in a conversation.      *)
(***************************************************************************)
\* models.py lines 83-86: auto_now sets the field to the clock each time the
\* conversation itself is saved
ConversationSave(c) ==
    /\ updated_at' = [updated_at EXCEPT ![c] = now]
    /\ UNCHANGED <<now, ticks, seed, throttleVars, msgs, corrupted, cache, out,
                   dirty, clean, nops>>

NextConv ==
    \/ msgs[Len(msgs)].timestamp = now /\ Tick(1)
    \/ \E u \in Users, p \in 1..Len(msgs) :
           reply_message(u, "POST", p, "hi") /\ UNCHANGED nops
    \/ \E c \in Conversations : ConversationSave(c)

\* messages stored by reply_message, conversations saved, the clock running
SpecConv == InitThread /\ [][NextConv]_vars

\* C20: updated_at of a conversation never decreases, and once a message has
\* been stored in a conversation its updated_at is at least the time at
\* which the message was stored.
C20_UpdatedAtBumped ==
    /\ [](\A i \in Ids(msgs) :
              updated_at[msgs[i].conversation] >= msgs[i].timestamp)
    /\ [][\A c \in Conversations : updated_at'[c] >= updated_at[c]]_vars

(***************************************************************************)
(* seed.py: insert_data, one step per pass of its loop and per statement   *)
(* sent to the database.                                                   *)
(***************************************************************************)
\* the rows insert_data is given, each valid or not (validate_user_data)
RECURSIVE Rows(_)
Rows(n) ==
    IF n = 0 THEN {<<>>}
    ELSE Rows(n - 1) \cup {Append(r, v) : r \in {q \in Rows(n - 1) : Len(q) = n - 1},
                                          v \in BOOLEAN}

\* everything but the run of insert_data
notSeed == <<now, ticks, throttleVars, chatVars>>

\* lines 244-246: the loop takes the next record; the CSV reader skips an
\* invalid row (lines 193-196), the list input raises ValueError on it (line
\* 240 and lines 181-182), which insert_data does not catch
SeedTake ==
    /\ seed.pc = "loop"
    /\ seed.data # <<>>
    /\ seed' =
         IF Head(seed.data)
         THEN [seed EXCEPT !.data = Tail(@), !.batch = @ + 1,
                           !.pc = IF seed.batch + 1 >= seed.batch_size
                                  THEN "flush" ELSE "loop"]
         ELSE IF seed.kind = "csv"
         THEN [seed EXCEPT !.data = Tail(@)]
         ELSE [seed EXCEPT !.pc = "raised"]
    /\ UNCHANGED notSeed

\* lines 247-249: executemany of a full batch; the connection commits each
\* statement (autocommit, line 69), a failed statement writes nothing and
\* its error ends the call with 0 (lines 260-262)
SeedFlush(ok) ==
    /\ seed.pc = "flush"
    /\ seed' =
         IF ok
         THEN [seed EXCEPT !.written = @ + seed.batch,
                           !.total_inserted = @ + seed.batch,
                           !.batch = 0, !.pc = "loop"]
         ELSE [seed EXCEPT !.pc = "returned",
                           !.returned = 0]
    /\ UNCHANGED notSeed

\* lines 253-258: the loop has ended; the remaining records are written and
\* the total returned
SeedFinish(ok) ==
    /\ seed.pc = "loop"
    /\ seed.data = <<>>
    /\ seed' =
         IF seed.batch = 0
         THEN [seed EXCEPT !.pc = "returned", !.returned = seed.total_inserted]
         ELSE IF ok
         THEN [seed EXCEPT !.written = @ + seed.batch,
                           !.total_inserted = @ + seed.batch,
                           !.batch = 0, !.pc = "returned",
                           !.returned = seed.total_inserted + seed.batch]
         ELSE [seed EXCEPT !.pc = "returned",
                           !.returned = 0]
    /\ UNCHANGED notSeed

\* insert_data is called: with the rows of a CSV file or with a list of rows,
\* and a batch size
InitSeed ==
    /\ now = 0
    /\ ticks = 0
    /\ \E kind \in {"csv", "list"}, rows \in Rows(MaxRecords), size \in 1..MaxBatchSize :
           seed = [IdleSeed EXCEPT !.kind = kind, !.data = rows,
                                   !.batch_size = size, !.pc = "loop"]
    /\ InitThrottleIdle
    /\ InitChatIdle

NextSeed ==
    \/ SeedTake
    \/ \E ok \in BOOLEAN : SeedFlush(ok)
    \/ \E ok \in BOOLEAN : SeedFinish(ok)

\* one call of insert_data
SpecSeed == InitSeed /\ [][NextSeed]_vars

\* C21: the integer insert_data returns is the number of records the call
\* wrote to user_data, also when a database error occurs after one or more
\* batches were written.
C21_ReturnsNumberWritten ==
    seed.pc = "returned" => seed.returned = seed.written

(***************************************************************************)
(* Further claims on the request throttle.                                 *)
(***************************************************************************)
\* the timestamps of the list that are less than a window old at time t
InWindow(list, t) == SelectSeq(list, LAMBDA s : t - s < 60)

\* this step is the throttle's answer to a POST of the address
PostOf(addr) ==
    /\ nreq' = nreq + 1
    /\ resp'.method = "POST"
    /\ resp'.ip = addr

\* C22: a check of an identity that already has 5 timestamps in the window is
\* answered with the rate-limit refusal, is not passed on to the handler and
\* adds no timestamp to the record, which afterwards holds exactly the
\* timestamps that were in the window: a refused attempt does not extend the
\* time the identity stays blocked.
C22_DeniedRecordsNothing ==
    [][ \A addr \in Identities :
          (PostOf(addr) /\ Len(InWindow(request_counts[addr], now)) >= 5) =>
              /\ resp'.status = "limited"
              /\ request_counts'[addr] = InWindow(request_counts[addr], now)
      ]_vars

\* C22 witness: an identity refused one time unit before its window ends is
\* admitted again when the window has ended
C22_Witness ==
    \E addr \in Identities :
        LET L == log[addr] IN
        \E j \in DOMAIN L :
            /\ j > 1
            /\ ~L[j - 1].ok
            /\ L[j].ok
            /\ L[j].t - L[j - 1].t < 60
            /\ Len(request_counts[addr]) = 1

\* the timestamps of the list that are at most a window old at time t
NotOlderThanWindow(list, t) == SelectSeq(list, LAMBDA s : t - s <= 60)

\* C23: a check purges only the timestamps that are more than 60 old: a
\* timestamp exactly 60 old stays in the record and counts against the
\* capacity of that check.
C23_PurgeStrictlyOlder ==
    [][ \A addr \in Identities :
          PostOf(addr) =>
              LET kept == NotOlderThanWindow(request_counts[addr], now) IN
              IF Len(kept) >= 5
              THEN resp'.status = "limited" /\ request_counts'[addr] = kept
              ELSE resp'.status = "passed" /\ request_counts'[addr] = Append(kept, now)
      ]_vars

\* C24: a request whose method is not POST is always passed on to the
\* handler, whatever the record of its identity holds, and changes no
\* timestamp list of the throttle.
C24_OnlyPostThrottled ==
    /\ []((resp.status # "none" /\ resp.method # "POST") => resp.status = "passed")
    /\ [][(resp' # resp /\ resp'.method # "POST") =>
             /\ resp'.status = "passed"
             /\ request_counts' = request_counts]_vars

\* C24 witness: a GET of an identity whose record is full is passed on
C24_Witness ==
    /\ resp.method = "GET"
    /\ resp.status = "passed"
    /\ Len(InWindow(request_counts[resp.ip], resp.t)) = 5
    /\ now = resp.t

(***************************************************************************)
(* The reply structure under the message views.                            *)
(***************************************************************************)
\* C25: the reply structure stays acyclic: under reply_message, edit_message
\* and mark_all_as_read no message is ever its own ancestor, no operation
\* changes or removes the parent of an existing message, and a new message
\* replies to a message that already exists.
C25_RepliesAcyclic ==
    /\ []Acyclic(msgs)
    /\ [][ /\ \A i \in Ids(msgs) :
                /\ i \in Ids(msgs')
                /\ msgs'[i].parent_message = msgs[i].parent_message
           /\ \A i \in Ids(msgs') \ Ids(msgs) :
                msgs'[i].parent_message \in Ids(msgs) ]_vars

\* C25 witness: a reply to a reply, with a message edited and a message read
C25_Witness ==
    /\ Len(msgs) >= 3
    /\ msgs[2].parent_message = 1
    /\ msgs[3].parent_message = 2
    /\ \E i \in Ids(msgs) : msgs[i].content = "ed"
    /\ \E i \in Ids(msgs) : msgs[i].is_read

(***************************************************************************)
(* The throttle, identity by identity.                                     *)
(***************************************************************************)
\* the admitted requests among the first j - 1 entries of a log that lie
\* less than one window before entry j
AdmittedBefore(lg, j) ==
    {k \in 1..(j - 1) : lg[k].ok /\ lg[j].t - lg[k].t < 60}

\* C26: throttle state is isolated per identity: a request of an identity is
\* admitted exactly when fewer than five of that identity's own earlier
\* admitted requests lie within the window, and a POST of one identity
\* leaves the record of every other identity as it was.
C26_IsolatedPerIdentity ==
    /\ [](\A addr \in Identities : \A j \in DOMAIN log[addr] :
              log[addr][j].ok <=> Cardinality(AdmittedBefore(log[addr], j)) < 5)
    /\ [][ \A addr \in Identities :
              PostOf(addr) =>
                  \A other \in Identities \ {addr} :
                      request_counts'[other] = request_counts[other] ]_vars

\* C26 witness: the address is refused with a full record, and at the same
\* time a request without address is admitted
C26_Witness ==
    /\ log["10.0.0.1"] # <<>>
    /\ ~log["10.0.0.1"][Len(log["10.0.0.1"])].ok
    /\ log["10.0.0.1"][Len(log["10.0.0.1"])].t = now
    /\ resp.method = "POST"
    /\ resp.ip = NoAddr
    /\ resp.t = now
    /\ resp.status = "passed"
    /\ Len(request_counts["10.0.0.1"]) = 5
    /\ request_counts[NoAddr] = <<now>>

(***************************************************************************)
(* The two thread resolvers side by side.                                  *)
(***************************************************************************)
ResolverStatus(r) == IF r.err THEN "RecursionError" ELSE "ok"

\* both resolvers are applied to the same root over the same table; each of
\* them sends its own queries, and the database orders rows of equal
\* timestamp for each as it sees fit
ResolveBoth(id, rankThread, rankReplies) ==
    /\ id \in Ids(msgs)
    /\ LET a == get_message_thread(msgs, rankThread, id)
           b == get_threaded_replies(msgs, rankReplies, id)
       IN  out' = [Outcome("resolve_both", "u1", ResolverStatus(b), b.thread)
                      EXCEPT !.id = id,
                             !.other = a.thread,
                             !.otherStatus = ResolverStatus(a)]
    /\ UNCHANGED <<now, ticks, seed, throttleVars, msgs, corrupted, updated_at,
                   cache, dirty, clean, nops>>

NextEquiv ==
    \/ msgs[Len(msgs)].timestamp = now /\ Tick(1)
    \/ \E p \in 1..Len(msgs) :
           reply_message("u1", "POST", p, "hi") /\ UNCHANGED nops
    \/ \E id \in Ids(msgs), p \in 0..Len(msgs) : Corrupt(id, p)
    \/ \E id \in Ids(msgs) : \E r1, r2 \in Ranks(Len(msgs)) :
           ResolveBoth(id, r1, r2)

\* threads of replies, resolved by both resolvers
SpecEquiv == InitThread /\ [][NextEquiv]_vars

\* C27: the two thread resolvers are equivalent: for every table and every
\* root, get_message_thread and get_threaded_replies return the same
\* sequence of (message, depth) pairs, or fail alike.
C27_ResolversEquivalent ==
    out.op = "resolve_both" =>
        /\ out.otherStatus = out.status
        /\ out.other = out.value

(***************************************************************************)
(* edit_message beside mark_all_as_read under a threaded server: one step  *)
(* per database call, each request thread handling one request.            *)
(***************************************************************************)
\* a request of edit_message arrives
EditBegin(th, u, method, message_id, content) ==
    /\ pc[th] = "idle"
    /\ pc' = [pc EXCEPT ![th] = "load"]
    /\ loc' = [loc EXCEPT ![th] = [IdleView EXCEPT !.op = "edit_message",
                                      !.user = u, !.method = method,
                                      !.id = message_id, !.content = content]]
    /\ UNCHANGED <<now, ticks, seed, request_counts, resp, log, nreq, chatVars>>

\* lines 29-31 and 38: get_object_or_404 reads the whole row into the
\* message object; a request that is not a POST renders the form
EditLoad(th) ==
    /\ pc[th] = "load"
    /\ LET v == loc[th] IN
       IF v.id \notin Ids(msgs) \/ msgs[v.id].sender # v.user
       THEN /\ loc' = [loc EXCEPT ![th].status = "NotFound"]
            /\ pc' = [pc EXCEPT ![th] = "done"]
            /\ out' = [Outcome("edit_message", v.user, "NotFound", <<>>)
                          EXCEPT !.id = v.id]
       ELSE IF v.method = "POST"
       THEN /\ loc' = [loc EXCEPT ![th].data = <<msgs[v.id]>>]
            /\ pc' = [pc EXCEPT ![th] = "save"]
            /\ UNCHANGED out
       ELSE /\ loc' = [loc EXCEPT ![th].status = "form"]
            /\ pc' = [pc EXCEPT ![th] = "done"]
            /\ out' = [Outcome("edit_message", v.user, "form", <<>>)
                          EXCEPT !.id = v.id]
    /\ UNCHANGED <<now, ticks, seed, request_counts, resp, log, nreq,
                   msgs, corrupted, updated_at, cache, dirty, clean, nops>>

\* lines 32-36: the content of the message object is replaced and
\* message.save() writes every field of the object to the row
EditSave(th) ==
    /\ pc[th] = "save"
    /\ LET v == loc[th]
           message == [v.data[1] EXCEPT !.content = v.content]
       IN  /\ msgs' = [msgs EXCEPT ![v.id] = message]
           /\ out' = [Outcome("edit_message", v.user, "ok", <<>>) EXCEPT !.id = v.id]
    /\ loc' = [loc EXCEPT ![th].status = "ok"]
    /\ pc' = [pc EXCEPT ![th] = "done"]
    /\ UNCHANGED <<now, ticks, seed, request_counts, resp, log, nreq,
                   corrupted, updated_at, cache, dirty, clean, nops>>

NextEditRace ==
    \/ \E th \in Threads, u \in Users, m \in Methods, id \in 1..(Len(msgs) + 1) :
           EditBegin(th, u, m, id, "ed")
    \/ \E th \in Threads : EditLoad(th)
    \/ \E th \in Threads : EditSave(th)
    \/ \E th \in Threads, u \in Users, c \in Conversations : MarkBegin(th, u, c)
    \/ \E th \in Threads : MarkGetObject(th)
    \/ \E th \in Threads : MarkUpdate(th)
    \/ \E th \in Threads : MarkDeleteCounts(th)
    \/ \E th \in Threads : MarkDeleteConversations(th)
    \/ \E th \in Threads : MarkCount(th)

\* edit_message and mark_all_as_read handled by concurrent request threads
SpecEditRace == InitRace /\ [][NextEditRace]_vars

\* C28: the read flag is monotonic: a message that is read is never unread
\* again, whatever the interleaving of edit_message and mark_all_as_read.
C28_ReadFlagMonotonic ==
    [][ \A i \in Ids(msgs) : msgs[i].is_read => msgs'[i].is_read ]_vars

====
